---- MODULE Spec2Model ----
(***************************************************************************)
(* PharmaCrawler (pubmed_pharma_fetcher): the affiliation classifier, the  *)
(* company extractor, the author grouper, corresponding-email resolution   *)
(* and the paper pipeline of DataProcessor, as state machines.             *)
(*                                                                         *)
(* A Python str is a sequence of one-character strings, so "Inc." is       *)
(* <<"I","n","c",".">> and "" is <<>>.  A Python value that is not a str   *)
(* is a one-element sequence holding a tag longer than one character, so   *)
(* it never equals a str.                                                  *)
(***************************************************************************)
EXTENDS Integers, Sequences, FiniteSets, TLC

VARIABLES
    config_file,            \* condition of config/companies.json on disk
    hash_order,             \* iteration order of the set of known companies
    parser,                 \* the AffiliationParser (its four keyword sets)
    pc,                     \* position of the running call
    papers,                 \* process_papers: the argument
    paper_index,            \* process_papers: papers consumed by the loop
    processed_papers,       \* process_papers: the rows built so far
    non_academic_authors,   \* local of process_papers / result of the grouper
    company_affiliations,   \* local of process_papers / result of the grouper
    corresponding_email,    \* local of process_papers / result of the resolver
    csv_content,            \* export_to_csv: the records written
    exit_code,              \* main: the process exit code
    affiliation,            \* is_non_academic_affiliation: the argument
    is_non_academic,        \* is_non_academic_affiliation: the value returned
    authors,                \* get_non_academic_authors_info / resolver: the argument
    company_names,          \* extract_company_names: the value returned
    records                 \* fetch_paper_details: the records of the PubMed response

vars == <<config_file, hash_order, parser, pc, papers, paper_index,
          processed_papers, non_academic_authors, company_affiliations,
          corresponding_email, csv_content, exit_code, affiliation,
          is_non_academic, authors, company_names, records>>

-----------------------------------------------------------------------------
(* Python values and str methods *)

None == <<"None">>
NotAStr == <<"object">>

IsStr(v) == v # None /\ v # NotAStr

\* bool(v) for v a str, None or another object
Truthy(v) == v # None /\ v # <<>>

UpperChars == <<"A", "B", "C", "D", "E", "F", "G", "H", "I", "J", "K", "L", "M",
                "N", "O", "P", "Q", "R", "S", "T", "U", "V", "W", "X", "Y", "Z">>
LowerChars == <<"a", "b", "c", "d", "e", "f", "g", "h", "i", "j", "k", "l", "m",
                "n", "o", "p", "q", "r", "s", "t", "u", "v", "w", "x", "y", "z">>
DigitChars == <<"0", "1", "2", "3", "4", "5", "6", "7", "8", "9">>

Range(s) == {s[k] : k \in 1..Len(s)}

\* the character classes [A-Z], [a-zA-Z], \s and [a-zA-Z0-9.-]
Upper == Range(UpperChars)
Alpha == Range(UpperChars) \cup Range(LowerChars)
Space == {" "}
DomainChars == Alpha \cup Range(DigitChars) \cup {".", "-"}

IsUpper(c) == c \in Upper
IsAlpha(c) == c \in Alpha
IsSpace(c) == c \in Space

LowerChar(c) ==
    IF IsUpper(c)
    THEN LowerChars[CHOOSE k \in 1..Len(UpperChars) : UpperChars[k] = c]
    ELSE c

\* str.lower()
Lower(s) == [k \in 1..Len(s) |-> LowerChar(s[k])]

\* s[a:b] with 1-based inclusive ends; empty when b < a
Slice(s, a, b) == IF b < a THEN <<>> ELSE SubSeq(s, a, b)

\* whether sub occurs in s at position p
MatchAt(s, p, sub) ==
    /\ p >= 1
    /\ p + Len(sub) - 1 <= Len(s)
    /\ \A k \in 1..Len(sub) : s[p + k - 1] = sub[k]

\* sub in s
Contains(s, sub) == \E p \in 1..(Len(s) + 1) : MatchAt(s, p, sub)

\* whether sub occurs in s at position p, ignoring case (re.IGNORECASE)
MatchAtCI(s, p, sub) == MatchAt(Lower(s), p, Lower(sub))

\* str.strip()
Strip(s) ==
    IF \A k \in 1..Len(s) : IsSpace(s[k])
    THEN <<>>
    ELSE LET a == CHOOSE k \in 1..Len(s) :
                      ~IsSpace(s[k]) /\ \A m \in 1..(k - 1) : IsSpace(s[m])
             b == CHOOSE k \in 1..Len(s) :
                      ~IsSpace(s[k]) /\ \A m \in (k + 1)..Len(s) : IsSpace(s[m])
         IN  SubSeq(s, a, b)

\* sep.join(parts)
RECURSIVE Join(_, _)
Join(sep, parts) ==
    IF Len(parts) = 0 THEN <<>>
    ELSE IF Len(parts) = 1 THEN parts[1]
    ELSE parts[1] \o sep \o Join(sep, Tail(parts))

-----------------------------------------------------------------------------
(* The company registry *)

\* the built-in registry returned when companies.json is not found
FallbackConfig ==
    [pharmaceutical_companies |->
        << <<"P", "f", "i", "z", "e", "r">>,
           <<"N", "o", "v", "a", "r", "t", "i", "s">>,
           <<"R", "o", "c", "h", "e">>,
           <<"M", "e", "r", "c", "k">> >>,
     biotech_companies |->
        << <<"G", "e", "n", "e", "n", "t", "e", "c", "h">>,
           <<"A", "m", "g", "e", "n">>,
           <<"B", "i", "o", "g", "e", "n">>,
           <<"M", "o", "d", "e", "r", "n", "a">> >>,
     company_keywords |->
        << <<"P", "h", "a", "r", "m", "a", "c", "e", "u", "t", "i", "c", "a", "l", "s">>,
           <<"P", "h", "a", "r", "m", "a">>,
           <<"I", "n", "c", ".">>,
           <<"L", "t", "d", ".">>,
           <<"C", "o", "r", "p", ".">> >>,
     academic_keywords |->
        << <<"U", "n", "i", "v", "e", "r", "s", "i", "t", "y">>,
           <<"C", "o", "l", "l", "e", "g", "e">>,
           <<"I", "n", "s", "t", "i", "t", "u", "t", "e">>,
           <<"H", "o", "s", "p", "i", "t", "a", "l">> >>]

\* a companies.json that json.load accepts and that holds the four lists
LoadedConfig ==
    [pharmaceutical_companies |->
        << <<"P", "f", "i", "z", "e", "r">>,
           <<"S", "a", "n", "o", "f", "i">> >>,
     biotech_companies |->
        << <<"A", "m", "g", "e", "n">> >>,
     company_keywords |->
        << <<"P", "h", "a", "r", "m", "a">>,
           <<"B", "i", "o", "t", "e", "c", "h">>,
           <<"I", "n", "c", ".">>,
           <<"G", "m", "b", "H">> >>,
     academic_keywords |->
        << <<"U", "n", "i", "v", "e", "r", "s", "i", "t", "y">>,
           <<"H", "o", "s", "p", "i", "t", "a", "l">>,
           <<"S", "c", "h", "o", "o", "l">> >>]

\* a companies.json that json.load accepts and that lacks one of the lists
IncompleteConfig ==
    [pharmaceutical_companies |-> LoadedConfig.pharmaceutical_companies,
     company_keywords |-> LoadedConfig.company_keywords,
     academic_keywords |-> LoadedConfig.academic_keywords]

ConfigFiles == {"ok", "missing", "unreadable", "invalid_json", "missing_list"}

NoParser == [constructed |-> FALSE]

\* AffiliationParser.__init__ after _load_companies_config returned data
NewParser(data) ==
    [constructed |-> TRUE,
     companies_data |-> data,
     pharma_companies |-> Range(data.pharmaceutical_companies),
     biotech_companies |-> Range(data.biotech_companies),
     company_keywords |-> Range(data.company_keywords),
     academic_keywords |-> Range(data.academic_keywords)]

Parsers == {NewParser(FallbackConfig), NewParser(LoadedConfig)}

-----------------------------------------------------------------------------
(* Regular-expression helpers *)

\* the last index of the longest run of characters of the class that starts
\* at index from of s (from - 1 when s[from] is not in the class): what a
\* greedy class+ or class* takes
RunEnd(class, s, from) ==
    CHOOSE e \in (from - 1)..Len(s) :
        /\ \A k \in from..e : s[k] \in class
        /\ e = Len(s) \/ s[e + 1] \notin class

Max(S) == CHOOSE x \in S : \A y \in S : y <= x
Min(S) == CHOOSE x \in S : \A y \in S : x <= y

-----------------------------------------------------------------------------
(* Affiliation Classifier *)

\* the positions d of the "." that '@([a-zA-Z0-9.-]+\.[a-zA-Z]{2,})' can
\* use when "@" is at index at: one class character at least before it, two
\* letters after it
DomainDots(s, at) ==
    LET e == RunEnd(DomainChars, s, at + 1)
    IN  {d \in (at + 2)..(e - 2) :
            s[d] = "." /\ IsAlpha(s[d + 1]) /\ IsAlpha(s[d + 2])}

\* group 1 of the match of the email pattern at the "@" of index at: the
\* greedy [a-zA-Z0-9.-]+ gives back characters down to the last usable "."
DomainAt(s, at) ==
    LET d == Max(DomainDots(s, at))
    IN  SubSeq(s, at + 1, RunEnd(Alpha, s, d + 1))

\* re.findall(email_pattern, s): no match holds an "@" past its first
\* character, so the matches are those at the "@"s, left to right
RECURSIVE FindDomains(_, _)
FindDomains(s, from) ==
    IF from > Len(s) THEN <<>>
    ELSE IF s[from] = "@" /\ DomainDots(s, from) # {}
         THEN <<DomainAt(s, from)>> \o FindDomains(s, from + 1)
         ELSE FindDomains(s, from + 1)

academic_domains == { <<".", "e", "d", "u">>, <<".", "a", "c", ".">>,
                      <<".", "e", "d", "u", ".">>, <<".", "o", "r", "g">> }

corporate_domains == { <<".", "c", "o", "m">>, <<".", "n", "e", "t">>,
                       <<".", "b", "i", "z">>, <<".", "c", "o", ".">> }

_has_corporate_email_domain_skipless(aff) ==
    LET domains == FindDomains(Lower(aff), 1)
    IN  \E k \in 1..Len(domains) :
            \E corp \in corporate_domains : Contains(domains[k], corp)

_has_corporate_email_domain(aff) ==
    LET domains == FindDomains(Lower(aff), 1)
    IN  \E k \in 1..Len(domains) :
            /\ ~\E academic \in academic_domains : Contains(domains[k], academic)
            /\ \E corp \in corporate_domains : Contains(domains[k], corp)

_contains_pharma_biotech_company(self, aff) ==
    LET affiliation_lower == Lower(aff)
        all_companies == self.pharma_companies \cup self.biotech_companies
    IN  \E company \in all_companies : Contains(affiliation_lower, Lower(company))

\* the classifier with the company check moved before the academic check
is_non_academic_affiliation_company_first(self, aff) ==
    IF ~Truthy(aff) THEN FALSE
    ELSE LET affiliation_lower == Lower(aff)
         IN  IF _contains_pharma_biotech_company(self, aff) THEN TRUE
             ELSE IF \E keyword \in self.academic_keywords :
                        Contains(affiliation_lower, Lower(keyword))
             THEN FALSE
             ELSE IF \E keyword \in self.company_keywords :
                        Contains(affiliation_lower, Lower(keyword))
             THEN TRUE
             ELSE _has_corporate_email_domain(aff)

is_non_academic_affiliation(self, aff) ==
    IF ~Truthy(aff) THEN FALSE
    ELSE LET affiliation_lower == Lower(aff)
         IN  IF \E keyword \in self.academic_keywords :
                    Contains(affiliation_lower, Lower(keyword))
             THEN FALSE
             ELSE IF _contains_pharma_biotech_company(self, aff) THEN TRUE
             ELSE IF \E keyword \in self.company_keywords :
                        Contains(affiliation_lower, Lower(keyword))
             THEN TRUE
             ELSE _has_corporate_email_domain(aff)

\* affiliation.lower() raises AttributeError on a truthy value that is no str
is_non_academic_affiliation_raises(aff) == Truthy(aff) /\ ~IsStr(aff)

-----------------------------------------------------------------------------
(* Company Extractor *)

\* [a-zA-Z\s&] of pattern 1 (amp) and [a-zA-Z\s] of pattern 2
NameChars(amp) == Alpha \cup Space \cup (IF amp THEN {"&"} ELSE {})

\* pattern1: greedy name, then one of the corporate suffixes in this order
pattern1 ==
    [amp |-> TRUE, greedy |-> TRUE,
     suffixes |-> << <<"I", "n", "c", ".">>, <<"L", "t", "d", ".">>, <<"C", "o", "r", "p", ".">>, <<"C", "o", "r", "p", "o", "r", "a", "t", "i", "o", "n">>, <<"C", "o", "m", "p", "a", "n", "y">>,
                     <<"P", "h", "a", "r", "m", "a", "c", "e", "u", "t", "i", "c", "a", "l", "s">>, <<"P", "h", "a", "r", "m", "a">>, <<"B", "i", "o", "t", "e", "c", "h">> >>]

\* pattern2: lazy name, then one of the pharma/biotech suffixes in this order
pattern2 ==
    [amp |-> FALSE, greedy |-> FALSE,
     suffixes |-> << <<"P", "h", "a", "r", "m", "a", "c", "e", "u", "t", "i", "c", "a", "l", "s">>, <<"P", "h", "a", "r", "m", "a">>, <<"B", "i", "o", "t", "e", "c", "h">>, <<"B", "i", "o", "t", "e", "c", "h", "n", "o", "l", "o", "g", "y">> >>]

\* the indices q at which group 1 of pat can end when it starts at index p:
\* an upper-case letter, one name character at least, a suffix right after
GroupEnds(pat, s, p) ==
    IF ~IsUpper(s[p]) THEN {}
    ELSE LET e == RunEnd(NameChars(pat.amp), s, p + 1)
         IN  {q \in (p + 1)..e :
                 \E k \in 1..Len(pat.suffixes) : MatchAt(s, q + 1, pat.suffixes[k])}

\* the first alternative of the suffix group that matches at index p
FirstSuffix(pat, s, p) ==
    pat.suffixes[Min({k \in 1..Len(pat.suffixes) : MatchAt(s, p, pat.suffixes[k])})]

\* re.findall(pat, s) from index from on: the leftmost match, then the rest
\* of the string after the whole match (group 1 and the suffix)
RECURSIVE FindAll(_, _, _)
FindAll(pat, s, from) ==
    IF from > Len(s) THEN <<>>
    ELSE LET ends == GroupEnds(pat, s, from)
         IN  IF ends = {} THEN FindAll(pat, s, from + 1)
             ELSE LET q == IF pat.greedy THEN Max(ends) ELSE Min(ends)
                      suffix == FirstSuffix(pat, s, q + 1)
                  IN  <<SubSeq(s, from, q)>> \o FindAll(pat, s, q + Len(suffix) + 1)

leading_tokens == << <<"T", "h", "e">>, <<"A", "t">>, <<"F", "r", "o", "m">> >>
trailing_tokens == << <<"D", "e", "p", "a", "r", "t", "m", "e", "n", "t">>, <<"D", "i", "v", "i", "s", "i", "o", "n">>, <<"U", "n", "i", "t">> >>

\* re.sub(r'^(The|At|From)\s+', '', company, flags=re.IGNORECASE)
StripLeadingToken(company) ==
    LET hits == {k \in 1..Len(leading_tokens) :
                    /\ MatchAtCI(company, 1, leading_tokens[k])
                    /\ Len(company) > Len(leading_tokens[k])
                    /\ IsSpace(company[Len(leading_tokens[k]) + 1])}
    IN  IF hits = {} THEN company
        ELSE LET n == Len(leading_tokens[Min(hits)])
             IN  Slice(company, RunEnd(Space, company, n + 1) + 1, Len(company))

\* re.sub(r'\s+(Department|Division|Unit)$', '', company, flags=re.IGNORECASE)
StripTrailingToken(company) ==
    LET hits == {k \in 1..Len(trailing_tokens) :
                    LET w == Len(company) - Len(trailing_tokens[k]) + 1
                    IN  /\ w >= 2
                        /\ MatchAtCI(company, w, trailing_tokens[k])
                        /\ IsSpace(company[w - 1])}
    IN  IF hits = {} THEN company
        ELSE LET w == Len(company) - Len(trailing_tokens[Min(hits)]) + 1
                 b == Min({m \in 1..(w - 1) : \A j \in m..(w - 1) : IsSpace(company[j])})
             IN  Slice(company, 1, b - 1)

\* the clean-up loop of _extract_company_patterns
RECURSIVE CleanCompanies(_)
CleanCompanies(companies) ==
    IF Len(companies) = 0 THEN <<>>
    ELSE LET company == StripTrailingToken(StripLeadingToken(Head(companies)))
         IN  (IF Len(Strip(company)) > 2 THEN <<Strip(company)>> ELSE <<>>)
             \o CleanCompanies(Tail(companies))

_extract_company_patterns(aff) ==
    LET matches1 == FindAll(pattern1, aff, 1)
        matches2 == FindAll(pattern2, aff, 1)
        companies == [k \in 1..Len(matches1) |-> Strip(matches1[k])]
                     \o [k \in 1..Len(matches2) |-> Strip(matches2[k])]
    IN  CleanCompanies(companies)

\* the order in which a for loop visits the set all_companies: the order of
\* the lists the set was built from, or its reverse
RECURSIVE Reverse(_)
Reverse(s) == IF Len(s) = 0 THEN <<>> ELSE Reverse(Tail(s)) \o <<Head(s)>>

HashOrders == {"forward", "backward"}

\* seq without the entries that repeat an earlier one, compared lower-cased
\* when fold_case (the seen set of extract_company_names) and exactly when
\* not (dict.fromkeys)
RECURSIVE Unique(_, _, _)
Unique(seq, seen, fold_case) ==
    IF Len(seq) = 0 THEN <<>>
    ELSE LET key == IF fold_case THEN Lower(Head(seq)) ELSE Head(seq)
         IN  IF key \in seen THEN Unique(Tail(seq), seen, fold_case)
             ELSE <<Head(seq)>> \o Unique(Tail(seq), seen \cup {key}, fold_case)

IterationOrder(self, order) ==
    LET listed == Unique(self.companies_data.pharmaceutical_companies
                         \o self.companies_data.biotech_companies, {}, FALSE)
    IN  IF order = "forward" THEN listed ELSE Reverse(listed)

\* the extractor with the entries compared exactly instead of lower-cased
extract_company_names_exact(self, order, aff) ==
    IF ~Truthy(aff) THEN <<>>
    ELSE LET all_companies == IterationOrder(self, order)
             known == SelectSeq(all_companies,
                                LAMBDA company : Contains(Lower(aff), Lower(company)))
             companies == known \o _extract_company_patterns(aff)
         IN  Unique(companies, {}, FALSE)

extract_company_names(self, order, aff) ==
    IF ~Truthy(aff) THEN <<>>
    ELSE LET all_companies == IterationOrder(self, order)
             known == SelectSeq(all_companies,
                                LAMBDA company : Contains(Lower(aff), Lower(company)))
             companies == known \o _extract_company_patterns(aff)
         IN  Unique(companies, {}, TRUE)

\* affiliation.lower() raises AttributeError on a truthy value that is no str
extract_company_names_raises(aff) == Truthy(aff) /\ ~IsStr(aff)

-----------------------------------------------------------------------------
(* Author Grouper *)

Author(first_name, last_name, aff, email, is_corresponding) ==
    [first_name |-> first_name, last_name |-> last_name, affiliation |-> aff,
     email |-> email, is_corresponding |-> is_corresponding]

\* f"{author.first_name} {author.last_name}".strip()
author_name(author) == Strip(author.first_name \o <<" ">> \o author.last_name)

\* the authors the loop of get_non_academic_authors_info takes the branch for
NonAcademic(self, authors_) ==
    SelectSeq(authors_, LAMBDA author : is_non_academic_affiliation(self, author.affiliation))

RECURSIVE Flatten(_)
Flatten(lists) == IF Len(lists) = 0 THEN <<>> ELSE Head(lists) \o Flatten(Tail(lists))

\* the grouper without its closing de-duplication
get_non_academic_authors_info_no_dedup(self, order, authors_) ==
    LET taken == NonAcademic(self, authors_)
        names == [k \in 1..Len(taken) |-> author_name(taken[k])]
        named == SelectSeq(names, LAMBDA name : Truthy(name))
        companies == Flatten([k \in 1..Len(taken) |->
                                 extract_company_names(self, order, taken[k].affiliation)])
    IN  [authors |-> named, companies |-> companies]

get_non_academic_authors_info(self, order, authors_) ==
    LET taken == NonAcademic(self, authors_)
        names == [k \in 1..Len(taken) |-> author_name(taken[k])]
        named == SelectSeq(names, LAMBDA name : Truthy(name))
        companies == Flatten([k \in 1..Len(taken) |->
                                 extract_company_names(self, order, taken[k].affiliation)])
    IN  [authors |-> Unique(named, {}, FALSE),
         companies |-> Unique(companies, {}, FALSE)]

\* the AttributeError of is_non_academic_affiliation leaves the grouper
get_non_academic_authors_info_raises(authors_) ==
    \E k \in 1..Len(authors_) : is_non_academic_affiliation_raises(authors_[k].affiliation)

-----------------------------------------------------------------------------
(* Record parsing: PubMedClient._parse_paper_record and its helpers *)

\* d.get(key, default) for a dict d
Get(d, key, default) == IF key \in DOMAIN d THEN d[key] ELSE default

\* \w, and the classes [A-Za-z0-9._%+-] and [A-Z|a-z] of the email pattern
WordChars == Alpha \cup Range(DigitChars) \cup {"_"}
LocalChars == Alpha \cup Range(DigitChars) \cup {".", "_", "%", "+", "-"}
TldChars == Alpha \cup {"|"}

\* \b in front of index p of s: a word character on one side only
WordBoundary(s, p) ==
    (p - 1 \in 1..Len(s) /\ s[p - 1] \in WordChars)
        # (p \in 1..Len(s) /\ s[p] \in WordChars)

\* where a match of the email pattern with its "@" at index at can start:
\* inside the run of local characters that ends before the "@", at a \b
EmailStarts(s, at) ==
    {p \in 1..(at - 1) :
        /\ \A k \in p..(at - 1) : s[k] \in LocalChars
        /\ WordBoundary(s, p)}

\* the positions d of the "\." of a match with its "@" at index at, each
\* with the indices the match can end at: two characters of [A-Z|a-z] at
\* least after the ".", and a \b behind the last
EmailEnds(s, at, d) ==
    {q \in (d + 2)..RunEnd(TldChars, s, d + 1) : WordBoundary(s, q + 1)}
EmailDots(s, at) ==
    {d \in (at + 2)..RunEnd(DomainChars, s, at + 1) :
        s[d] = "." /\ EmailEnds(s, at, d) # {}}

\* re.findall(email_pattern, affiliation)[0], or None when the list is
\* empty: the leftmost match, its greedy parts as long as they can be
FirstEmail(s) ==
    LET ats == {at \in 1..Len(s) :
                   s[at] = "@" /\ EmailStarts(s, at) # {} /\ EmailDots(s, at) # {}}
    IN  IF ats = {} THEN None
        ELSE LET at == Min(ats)
                 d == Max(EmailDots(s, at))
             IN  SubSeq(s, Min(EmailStarts(s, at)), Max(EmailEnds(s, at, d)))

\* str.isdigit() and str.zfill(2) on digits
IsDigits(v) == Len(v) > 0 /\ \A k \in 1..Len(v) : v[k] \in Range(DigitChars)
Zfill2(v) == IF Len(v) = 0 THEN <<"0", "0">> ELSE IF Len(v) = 1 THEN <<"0">> \o v ELSE v

month_map ==
    [name \in {<<"J", "a", "n">>, <<"F", "e", "b">>, <<"M", "a", "r">>, <<"A", "p", "r">>, <<"M", "a", "y">>, <<"J", "u", "n">>,
               <<"J", "u", "l">>, <<"A", "u", "g">>, <<"S", "e", "p">>, <<"O", "c", "t">>, <<"N", "o", "v">>, <<"D", "e", "c">>} |->
        CASE name = <<"J", "a", "n">> -> <<"0", "1">> [] name = <<"F", "e", "b">> -> <<"0", "2">>
          [] name = <<"M", "a", "r">> -> <<"0", "3">> [] name = <<"A", "p", "r">> -> <<"0", "4">>
          [] name = <<"M", "a", "y">> -> <<"0", "5">> [] name = <<"J", "u", "n">> -> <<"0", "6">>
          [] name = <<"J", "u", "l">> -> <<"0", "7">> [] name = <<"A", "u", "g">> -> <<"0", "8">>
          [] name = <<"S", "e", "p">> -> <<"0", "9">> [] name = <<"O", "c", "t">> -> <<"1", "0">>
          [] name = <<"N", "o", "v">> -> <<"1", "1">> [] name = <<"D", "e", "c">> -> <<"1", "2">>]

\* the electronic publication date, else the journal's, else "Unknown"
_extract_publication_date(article) ==
    IF "ArticleDate" \in DOMAIN article /\ Len(article.ArticleDate) > 0
    THEN LET date_info == article.ArticleDate[1]
         IN  Get(date_info, "Year", <<>>) \o <<"-">>
                 \o Zfill2(Get(date_info, "Month", <<"0", "1">>)) \o <<"-">>
                 \o Zfill2(Get(date_info, "Day", <<"0", "1">>))
    ELSE IF "Journal" \in DOMAIN article /\ "JournalIssue" \in DOMAIN article.Journal
    THEN LET pub_date == Get(article.Journal.JournalIssue, "PubDate", <<>>)
             named == Get(pub_date, "Month", <<"0", "1">>)
             month == IF IsDigits(named) THEN named
                      ELSE Get(month_map, Slice(named, 1, Min({3, Len(named)})), <<"0", "1">>)
         IN  Get(pub_date, "Year", <<>>) \o <<"-">> \o Zfill2(month) \o <<"-">>
                 \o Zfill2(Get(pub_date, "Day", <<"0", "1">>))
    ELSE <<"U", "n", "k", "n", "o", "w", "n">>

\* author_data.get raises AttributeError on an entry that is no dict (a
\* record that holds its type only), and re.findall raises TypeError on a
\* truthy affiliation that is no str
NotADict == [type |-> "str"]
IsDict(v) == "type" \notin DOMAIN v
author_affiliation(author_data) ==
    IF "AffiliationInfo" \in DOMAIN author_data /\ Len(author_data.AffiliationInfo) > 0
    THEN Get(author_data.AffiliationInfo[1], "Affiliation", <<>>)
    ELSE <<>>
parse_author_raises(author_data) ==
    \/ ~IsDict(author_data)
    \/ Truthy(author_affiliation(author_data)) /\ ~IsStr(author_affiliation(author_data))

\* the loop body of _extract_authors with the e-mail search left out
parse_author_no_email(author_data) ==
    LET forename == Get(author_data, "ForeName", <<>>)
        first_name == IF Truthy(forename) THEN forename
                      ELSE Get(author_data, "Initials", <<>>)
    IN  [first_name |-> first_name, last_name |-> Get(author_data, "LastName", <<>>),
         affiliation |-> author_affiliation(author_data), email |-> None,
         is_corresponding |-> FALSE]

\* the loop body of _extract_authors: names, first affiliation, and the
\* first e-mail address of the affiliation, which marks the author
parse_author(author_data) ==
    LET forename == Get(author_data, "ForeName", <<>>)
        first_name == IF Truthy(forename) THEN forename
                      ELSE Get(author_data, "Initials", <<>>)
        aff == author_affiliation(author_data)
        email == IF Truthy(aff) THEN FirstEmail(aff) ELSE None
    IN  [first_name |-> first_name, last_name |-> Get(author_data, "LastName", <<>>),
         affiliation |-> aff, email |-> email, is_corresponding |-> email # None]

\* the authors in the opposite order
_extract_authors_reversed(article) ==
    IF "AuthorList" \notin DOMAIN article THEN <<>>
    ELSE LET parsed == SelectSeq(article.AuthorList,
                                 LAMBDA author_data : ~parse_author_raises(author_data))
         IN  [k \in 1..Len(parsed) |-> parse_author(parsed[Len(parsed) + 1 - k])]

\* an entry that raises is skipped with a warning
_extract_authors(article) ==
    IF "AuthorList" \notin DOMAIN article THEN <<>>
    ELSE LET parsed == SelectSeq(article.AuthorList,
                                 LAMBDA author_data : ~parse_author_raises(author_data))
         IN  [k \in 1..Len(parsed) |-> parse_author(parsed[k])]

\* the KeyError of a record without one of the subscripted keys
_parse_paper_record_raises(record) ==
    \/ "MedlineCitation" \notin DOMAIN record
    \/ ~({"PMID", "Article"} \subseteq DOMAIN record.MedlineCitation)
    \/ "ArticleTitle" \notin DOMAIN record.MedlineCitation.Article

_parse_paper_record(record) ==
    LET medline_citation == record.MedlineCitation
        article == medline_citation.Article
    IN  [pubmed_id |-> medline_citation.PMID, title |-> article.ArticleTitle,
         publication_date |-> _extract_publication_date(article),
         authors |-> _extract_authors(article)]

\* the papers of the records that parse, in record order
_fetch_batch(records_) ==
    LET parsed == SelectSeq(records_, LAMBDA record : ~_parse_paper_record_raises(record))
    IN  [k \in 1..Len(parsed) |-> _parse_paper_record(parsed[k])]

-----------------------------------------------------------------------------
(* Corresponding-author resolution *)

\* the resolver without its first tier
_extract_corresponding_email_any_first(authors_) ==
    LET any == {k \in 1..Len(authors_) : Truthy(authors_[k].email)}
    IN  IF any # {} THEN authors_[Min(any)].email ELSE None

_extract_corresponding_email(authors_) ==
    LET marked == {k \in 1..Len(authors_) :
                      authors_[k].is_corresponding /\ Truthy(authors_[k].email)}
        any == {k \in 1..Len(authors_) : Truthy(authors_[k].email)}
    IN  IF marked # {} THEN authors_[Min(marked)].email
        ELSE IF any # {} THEN authors_[Min(any)].email
        ELSE None

-----------------------------------------------------------------------------
(* Paper Aggregator and Report Builder *)

Paper(pubmed_id, title, publication_date, authors_) ==
    [pubmed_id |-> pubmed_id, title |-> title,
     publication_date |-> publication_date, authors |-> authors_]

fieldnames == <<"PubmedID", "Title", "Publication Date", "Non-academic Author(s)",
                "Company Affiliation(s)", "Corresponding Author Email">>

\* the dict with the e-mail column left empty when no e-mail was resolved
processed_paper_blank_email(paper, names, companies, email) ==
    [f \in Range(fieldnames) |->
        CASE f = "PubmedID" -> paper.pubmed_id
          [] f = "Title" -> paper.title
          [] f = "Publication Date" -> paper.publication_date
          [] f = "Non-academic Author(s)" -> Join(<<";", " ">>, names)
          [] f = "Company Affiliation(s)" -> Join(<<";", " ">>, companies)
          [] f = "Corresponding Author Email" -> IF Truthy(email) THEN email ELSE <<>>]

\* the dict built for a kept paper
processed_paper(paper, names, companies, email) ==
    [f \in Range(fieldnames) |->
        CASE f = "PubmedID" -> paper.pubmed_id
          [] f = "Title" -> paper.title
          [] f = "Publication Date" -> paper.publication_date
          [] f = "Non-academic Author(s)" -> Join(<<";", " ">>, names)
          [] f = "Company Affiliation(s)" -> Join(<<";", " ">>, companies)
          [] f = "Corresponding Author Email" ->
                IF Truthy(email) THEN email ELSE <<"N", "o", "t", " ", "a", "v", "a", "i", "l", "a", "b", "l", "e">>]

\* the row put in front of the rows instead of after them
Append_processed_front(rows, row) == <<row>> \o rows

\* processed_papers.append(processed_paper)
Append_processed(rows, row) == Append(rows, row)

\* csv.DictWriter: the header, then one record per row, the fields in the
\* order of fieldnames
export_to_csv(rows) ==
    <<fieldnames>> \o [k \in 1..Len(rows) |->
                          [c \in 1..Len(fieldnames) |-> rows[k][fieldnames[c]]]]

\* the rows process_papers returns for the papers ps when the loop over the
\* set of known companies runs in the given order and nothing raises
process_papers(self, order, ps) ==
    LET kept == SelectSeq(ps, LAMBDA paper :
                    Len(get_non_academic_authors_info(self, order, paper.authors).authors) > 0)
    IN  [k \in 1..Len(kept) |->
            processed_paper(kept[k],
                get_non_academic_authors_info(self, order, kept[k].authors).authors,
                get_non_academic_authors_info(self, order, kept[k].authors).companies,
                _extract_corresponding_email(kept[k].authors))]

\* the test of line 34 left out: every paper is kept
keeps_paper_always(names) == TRUE

\* line 34: a paper is kept when its non-academic-author list is not empty
keeps_paper(names) == Len(names) > 0

-----------------------------------------------------------------------------
(* Bounds and inputs *)

MaxPapers == 2
MaxAuthors == 2
MaxFragments == 2

SeqsUpTo(S, n) == UNION {[1..k -> S] : k \in 0..n}

\* pieces that affiliations are put together from: company names and
\* keywords in several casings, e-mail addresses on commercial, academic and
\* other domains, and neutral text
Fragments ==
    { <<" ">>, <<"P", "f", "i", "z", "e", "r">>, <<"p", "f", "i", "z", "e", "r">>, <<"U", "n", "i", "v", "e", "r", "s", "i", "t", "y">>, <<"H", "O", "S", "P", "I", "T", "A", "L", " ">>, <<"I", "n", "c", ".">>, <<"p", "h", "a", "r", "m", "a">>,
      <<"A", "c", "m", "e">>, <<"j", "@", "x", ".", "c", "o", "m">>, <<"j", "@", "x", ".", "i", "o">>, <<"j", "@", "x", ".", "e", "d", "u">>, <<"j", "@", "b", ".", "o", "r", "g", ".", "c", "o", "m">>, <<"j", "@", "a", ".", "c", "o", ".", "u", "k">>, <<",", " ", "N", "Y">> }

Affiliations ==
    {Flatten(fs) : fs \in SeqsUpTo(Fragments, MaxFragments)} \cup {None, NotAStr}

\* pieces for the extractor: known companies in several casings, names
\* the patterns capture, corporate suffixes, a leading and a trailing token,
\* a name of two letters, and the two halves of scenario C
ExtractorFragments ==
    { <<" ">>, <<"P", "f", "i", "z", "e", "r", " ">>, <<"P", "F", "I", "Z", "E", "R", " ", "I", "n", "c", ".", " ">>, <<"A", "m", "g", "e", "n", " ">>, <<"R", "o", "c", "h", "e">>, <<"A", "c", "m", "e", " ", "P", "h", "a", "r", "m", "a">>, <<"A", "C", "M", "E", " ">>,
      <<"P", "h", "a", "r", "m", "a">>, <<"I", "n", "c", ".">>, <<"T", "h", "e", " ">>, <<"A", "b", " ">>, <<" ", "U", "n", "i", "t", " ">>, <<"X", "Y", "Z", " ", "B", "i", "o", "t", "e", "c", "h">>,
      <<",", " ", "C", "a", "m", "b", "r", "i", "d", "g", "e", " ", "M", "A">> }

ExtractorAffiliations ==
    {Flatten(fs) : fs \in SeqsUpTo(ExtractorFragments, MaxFragments)} \cup {None, NotAStr}

john == Author(<<"J", "o", "h", "n">>, <<"S", "m", "i", "t", "h">>, <<"P", "f", "i", "z", "e", "r", " ", "I", "n", "c", ".", ",", " ", "N", "e", "w", " ", "Y", "o", "r", "k", ",", " ", "N", "Y", ",", " ", "j", "o", "h", "n", "@", "p", "f", "i", "z", "e", "r", ".", "c", "o", "m">>,
               <<"j", "o", "h", "n", "@", "p", "f", "i", "z", "e", "r", ".", "c", "o", "m">>, TRUE)
john_upper == Author(<<"J", "O", "H", "N">>, <<"S", "M", "I", "T", "H">>, <<"p", "f", "i", "z", "e", "r", ",", " ", "N", "Y">>, None, FALSE)
unnamed == Author(<<>>, <<>>, <<"R", "o", "c", "h", "e", " ", "a", "n", "d", " ", "P", "f", "i", "z", "e", "r", " ", "L", "t", "d", ".">>, None, FALSE)
jane == Author(<<"J", "a", "n", "e">>, <<"D", "o", "e">>, <<"D", "e", "p", "a", "r", "t", "m", "e", "n", "t", " ", "o", "f", " ", "M", "e", "d", "i", "c", "i", "n", "e", ",", " ", "S", "t", "a", "n", "f", "o", "r", "d", " ", "U", "n", "i", "v", "e", "r", "s", "i", "t", "y">>, None, FALSE)
jane_clinic == Author(<<"J", "a", "n", "e">>, <<"D", "o", "e">>, <<"G", "e", "n", "e", "r", "a", "l", " ", "H", "o", "s", "p", "i", "t", "a", "l", ",", " ", "j", "a", "n", "e", "@", "g", "h", ".", "o", "r", "g">>, <<"j", "a", "n", "e", "@", "g", "h", ".", "o", "r", "g">>, TRUE)
ann == Author(<<"A", "n", "n">>, <<>>, <<"A", "c", "m", "e", " ", "P", "h", "a", "r", "m", "a">>, None, FALSE)
bob == Author(<<"B", "o", "b">>, <<"R", "a", "y">>, <<"A", "C", "M", "E", " ", "P", "h", "a", "r", "m", "a", ",", " ", "B", "a", "s", "e", "l">>, None, FALSE)
no_affiliation == Author(<<"J", "o", "h", "n">>, <<"S", "m", "i", "t", "h">>, <<>>, None, FALSE)
malformed == Author(<<"M", "a", "x">>, <<"R", "o", "e">>, NotAStr, None, FALSE)

\* the dicts of a PubMed response
AuthorData(fore_name, last_name, affiliations) ==
    [ForeName |-> fore_name, LastName |-> last_name,
     AffiliationInfo |-> [k \in 1..Len(affiliations) |-> [Affiliation |-> affiliations[k]]]]
Record(pmid, article) == [MedlineCitation |-> [PMID |-> pmid, Article |-> article]]

\* scenario A: an academic author without e-mail, then an industry author
\* with one
ScenarioARecord ==
    Record(<<"7">>, [ArticleTitle |-> <<"T", "7">>,
                  ArticleDate |-> << [Year |-> <<"2", "0", "2", "4">>, Month |-> <<"1">>, Day |-> <<"1", "5">>] >>,
                  AuthorList |-> << AuthorData(<<"J", "a", "n", "e">>, <<"D", "o", "e">>,
                                        << <<"D", "e", "p", "a", "r", "t", "m", "e", "n", "t", " ", "o", "f", " ", "M", "e", "d", "i", "c", "i", "n", "e", ",", " ", "S", "t", "a", "n", "f", "o", "r", "d", " ", "U", "n", "i", "v", "e", "r", "s", "i", "t", "y">> >>),
                                    AuthorData(<<"J", "o", "h", "n">>, <<"S", "m", "i", "t", "h">>,
                                        << <<"P", "f", "i", "z", "e", "r", " ", "I", "n", "c", ".", ",", " ", "N", "e", "w", " ", "Y", "o", "r", "k", ",", " ", "N", "Y", ",", " ", "j", "o", "h", "n", "@", "p", "f", "i", "z", "e", "r", ".", "c", "o", "m">> >>) >>])

\* an academic author with an e-mail address, then industry authors: one
\* with two addresses, one known by initials with an address that lacks its
\* top-level domain
AcademicFirstRecord ==
    Record(<<"3">>, [ArticleTitle |-> <<"T", "3">>,
                  ArticleDate |-> <<>>,
                  Journal |-> [JournalIssue |-> [PubDate |-> [Year |-> <<"2", "0", "2", "3">>, Month |-> <<"M", "a", "r">>]]],
                  AuthorList |-> << AuthorData(<<"J", "a", "n", "e">>, <<"D", "o", "e">>,
                                        << <<"G", "e", "n", "e", "r", "a", "l", " ", "H", "o", "s", "p", "i", "t", "a", "l", ",", " ", "j", "a", "n", "e", "@", "g", "h", ".", "o", "r", "g">> >>),
                                    AuthorData(<<"A", "n", "n">>, <<"L", "e", "e">>,
                                        << <<"A", "c", "m", "e", " ", "P", "h", "a", "r", "m", "a", ",", " ", "_", "a", "n", "n", "@", "a", "c", "m", "e", ".", "c", "o", "m", " ", "o", "r", " ", "a", ".", "l", "@", "a", "c", "m", "e", ".", "c", "o", ".", "u", "k", ".">>,
                                           <<"A", "m", "g", "e", "n">> >>),
                                    [Initials |-> <<"B">>, LastName |-> <<"R", "a", "y">>,
                                     AffiliationInfo |-> << [Affiliation |-> <<"A", "m", "g", "e", "n", ",", " ", "b", "o", "b", "@", "a", "m", "g", "e", "n">>] >>] >>])

\* no e-mail address at all; an entry that is no dict; an affiliation that
\* is no str; an author without affiliation; no date
NoEmailRecord ==
    Record(<<"5">>, [ArticleTitle |-> <<"T", "5">>,
                  AuthorList |-> << NotADict,
                                    AuthorData(<<"E", "v", "a">>, <<"L", "i", "n", "d">>, << <<"R", "o", "c", "h", "e", " ", "a", "n", "d", " ", "P", "f", "i", "z", "e", "r", " ", "L", "t", "d", ".">> >>),
                                    AuthorData(<<"M", "a", "x">>, <<"R", "o", "e">>, << NotAStr >>),
                                    AuthorData(<<"K", "i", "m">>, <<"O", "h">>, <<>>) >>])

\* academic authors only, one of them with an e-mail address
AcademicRecord ==
    Record(<<"4">>, [ArticleTitle |-> <<"T", "4">>,
                  ArticleDate |-> << [Year |-> <<"2", "0", "2", "2">>] >>,
                  AuthorList |-> << AuthorData(<<"J", "a", "n", "e">>, <<"D", "o", "e">>,
                                        << <<"G", "e", "n", "e", "r", "a", "l", " ", "H", "o", "s", "p", "i", "t", "a", "l", ",", " ", "j", "a", "n", "e", "@", "g", "h", ".", "o", "r", "g">> >>) >>])

\* a record without title, and one without author list
UntitledRecord ==
    Record(<<"9">>, [AuthorList |-> << AuthorData(<<"J", "o", "h", "n">>, <<"S", "m", "i", "t", "h">>, << <<"P", "f", "i", "z", "e", "r", " ", "I", "n", "c", ".">> >>) >>])
AuthorlessRecord ==
    Record(<<"1">>, [ArticleTitle |-> <<"T", "1">>,
                  Journal |-> [JournalIssue |-> [PubDate |-> [Year |-> <<"2", "0", "2", "0">>, Month |-> <<"1", "1">>, Day |-> <<"3">>]]]])

SampleRecords ==
    {ScenarioARecord, AcademicFirstRecord, NoEmailRecord, AcademicRecord,
     UntitledRecord, AuthorlessRecord}

\* Entrez.efetch failed: an error instead of the records
NoResponse == << [error |-> "HTTPError"] >>
IsResponse(records_) == \A k \in 1..Len(records_) : "error" \notin DOMAIN records_[k]

GrouperAuthors ==
    {john, john_upper, unnamed, jane, ann, bob, no_affiliation, malformed}

\* authors that differ in e-mail and corresponding mark only
EmailAuthors ==
    {Author(<<"A">>, <<"B">>, <<>>, email, mark) :
        email \in {None, <<>>, <<"a", "@", "x", ".", "c", "o", "m">>, <<"b", "@", "y", ".", "o", "r", "g">>}, mark \in BOOLEAN}

\* scenario A; all academic; one unnamed industry author; a malformed
\* author record; an industry author without e-mail; no author at all
SamplePapers ==
    { Paper(<<"7">>, <<"T", "7">>, <<"2", "0", "2", "4", "-", "0", "1", "-", "1", "5">>, <<jane, john>>),
      Paper(<<"3">>, <<"T", "3">>, <<"U", "n", "k", "n", "o", "w", "n">>, <<jane, jane_clinic>>),
      Paper(<<"9">>, <<"T", "9">>, <<"2", "0", "2", "3", "-", "0", "5", "-", "0", "1">>, <<unnamed>>),
      Paper(<<"4">>, <<"T", "4">>, <<"2", "0", "2", "2", "-", "1", "1", "-", "3", "0">>, <<ann, malformed>>),
      Paper(<<"5">>, <<"T", "5">>, <<"2", "0", "2", "1", "-", "0", "2", "-", "0", "3">>, <<bob, john_upper>>),
      Paper(<<"1">>, <<"T", "1">>, <<"U", "n", "k", "n", "o", "w", "n">>, <<>>) }

-----------------------------------------------------------------------------
(* The pipeline: main constructs the DataProcessor, runs process_papers   *)
(* over the fetched papers and exports the rows                            *)

Idle ==
    /\ affiliation = <<>>
    /\ is_non_academic = FALSE
    /\ authors = <<>>
    /\ company_names = <<>>

Init ==
    /\ config_file \in ConfigFiles
    /\ hash_order \in HashOrders
    /\ papers \in SeqsUpTo(SamplePapers, MaxPapers)
    /\ parser = NoParser
    /\ pc = "start"
    /\ paper_index = 0
    /\ processed_papers = <<>>
    /\ non_academic_authors = <<>>
    /\ company_affiliations = <<>>
    /\ corresponding_email = None
    /\ csv_content = <<>>
    /\ exit_code = "running"
    /\ records = <<>>
    /\ Idle

\* _load_companies_config: json.load's result, or the fallback on
\* FileNotFoundError; any other exception (PermissionError, JSONDecodeError)
\* is not caught
_load_companies_config(file) ==
    CASE file = "ok" -> [raised |-> FALSE, data |-> LoadedConfig]
      [] file = "missing_list" -> [raised |-> FALSE, data |-> IncompleteConfig]
      [] file = "missing" -> [raised |-> FALSE, data |-> FallbackConfig]
      [] OTHER -> [raised |-> TRUE]

\* the subscripts of self.companies_data in __init__: a KeyError when a list
\* is not in the data
HasAllLists(data) ==
    {"pharmaceutical_companies", "biotech_companies",
     "company_keywords", "academic_keywords"} \subseteq DOMAIN data

\* DataProcessor() in main: AffiliationParser.__init__
Construct ==
    /\ pc = "start"
    /\ LET loaded == _load_companies_config(config_file)
       IN  IF loaded.raised \/ ~HasAllLists(loaded.data)
           THEN /\ pc' = "raised"
                /\ UNCHANGED parser
           ELSE /\ pc' = "process_papers"
                /\ parser' = NewParser(loaded.data)
    /\ UNCHANGED <<config_file, hash_order, papers, paper_index, processed_papers,
                   non_academic_authors, company_affiliations, corresponding_email,
                   csv_content, exit_code, affiliation, is_non_academic, authors,
                   company_names, records>>

\* one iteration of the for loop of process_papers
ProcessPaper ==
    /\ pc = "process_papers"
    /\ paper_index < Len(papers)
    /\ LET paper == papers[paper_index + 1]
       IN  IF get_non_academic_authors_info_raises(paper.authors)
           THEN /\ pc' = "raised"
                /\ UNCHANGED <<paper_index, processed_papers, non_academic_authors,
                               company_affiliations, corresponding_email>>
           ELSE \E info \in {get_non_academic_authors_info(parser, hash_order, paper.authors)} :
                /\ pc' = "process_papers"
                /\ paper_index' = paper_index + 1
                /\ non_academic_authors' = info.authors
                /\ company_affiliations' = info.companies
                /\ IF keeps_paper(info.authors)
                   THEN /\ corresponding_email' = _extract_corresponding_email(paper.authors)
                        /\ processed_papers' =
                               Append_processed(processed_papers,
                                   processed_paper(paper, info.authors, info.companies,
                                       _extract_corresponding_email(paper.authors)))
                   ELSE UNCHANGED <<corresponding_email, processed_papers>>
    /\ UNCHANGED <<config_file, hash_order, parser, papers, csv_content, exit_code,
                   affiliation, is_non_academic, authors,
                   company_names, records>>

\* return processed_papers
ReturnRows ==
    /\ pc = "process_papers"
    /\ paper_index = Len(papers)
    /\ pc' = "returned"
    /\ UNCHANGED <<config_file, hash_order, parser, papers, paper_index,
                   processed_papers, non_academic_authors, company_affiliations,
                   corresponding_email, csv_content, exit_code, affiliation,
                   is_non_academic, authors,
                   company_names, records>>

\* main after process_papers: nothing to report, or export_to_csv
Report ==
    /\ pc = "returned"
    /\ pc' = "done"
    /\ exit_code' = "0"
    /\ csv_content' = IF Len(processed_papers) = 0 THEN <<>>
                      ELSE export_to_csv(processed_papers)
    /\ UNCHANGED <<config_file, hash_order, parser, papers, paper_index,
                   processed_papers, non_academic_authors, company_affiliations,
                   corresponding_email, affiliation, is_non_academic, authors,
                   company_names, records>>

\* main's except Exception: traceback and sys.exit(1)
Fail ==
    /\ pc = "raised"
    /\ pc' = "exited"
    /\ exit_code' = "1"
    /\ UNCHANGED <<config_file, hash_order, parser, papers, paper_index,
                   processed_papers, non_academic_authors, company_affiliations,
                   corresponding_email, csv_content, affiliation, is_non_academic,
                   authors,
                   company_names, records>>

Next == Construct \/ ProcessPaper \/ ReturnRows \/ Report \/ Fail

Spec == Init /\ [][Next]_vars

-----------------------------------------------------------------------------
(* The pipeline from the PubMed response on: main after the components are *)
(* constructed fetches the records, parses them and processes the papers   *)

InitFetch ==
    /\ parser \in Parsers
    /\ hash_order \in HashOrders
    /\ records \in SeqsUpTo(SampleRecords, MaxPapers) \cup {NoResponse}
    /\ config_file = "missing"
    /\ pc = "fetch"
    /\ papers = <<>>
    /\ paper_index = 0
    /\ processed_papers = <<>>
    /\ non_academic_authors = <<>>
    /\ company_affiliations = <<>>
    /\ corresponding_email = None
    /\ csv_content = <<>>
    /\ exit_code = "running"
    /\ Idle

\* search_papers and fetch_paper_details in main: no paper found ends the
\* run, a failed request raises RuntimeError, else the records are parsed
FetchPapers ==
    /\ pc = "fetch"
    /\ IF ~IsResponse(records)
       THEN /\ pc' = "raised"
            /\ UNCHANGED <<papers, exit_code>>
       ELSE IF Len(records) = 0
       THEN /\ pc' = "done"
            /\ exit_code' = "0"
            /\ UNCHANGED papers
       ELSE /\ pc' = "process_papers"
            /\ papers' = _fetch_batch(records)
            /\ UNCHANGED exit_code
    /\ UNCHANGED <<config_file, hash_order, parser, paper_index, processed_papers,
                   non_academic_authors, company_affiliations, corresponding_email,
                   csv_content, affiliation, is_non_academic, authors,
                   company_names, records>>

NextFetch == FetchPapers \/ ProcessPaper \/ ReturnRows \/ Report \/ Fail

SpecFetch == InitFetch /\ [][NextFetch]_vars

-----------------------------------------------------------------------------
(* The classifier, the grouper and the resolver called on their own *)

PipelineIdle ==
    /\ config_file = "missing"
    /\ records = <<>>
    /\ company_names = <<>>
    /\ papers = <<>>
    /\ paper_index = 0
    /\ processed_papers = <<>>
    /\ csv_content = <<>>
    /\ exit_code = "running"

InitClassifier ==
    /\ parser \in Parsers
    /\ affiliation \in Affiliations
    /\ is_non_academic = FALSE
    /\ pc = "call"
    /\ hash_order = "forward"
    /\ authors = <<>>
    /\ non_academic_authors = <<>>
    /\ company_affiliations = <<>>
    /\ corresponding_email = None
    /\ PipelineIdle

\* is_non_academic_affiliation(affiliation)
Classify ==
    /\ pc = "call"
    /\ IF is_non_academic_affiliation_raises(affiliation)
       THEN /\ pc' = "raised"
            /\ UNCHANGED is_non_academic
       ELSE /\ pc' = "return"
            /\ is_non_academic' = is_non_academic_affiliation(parser, affiliation)
    /\ UNCHANGED <<config_file, hash_order, parser, papers, paper_index,
                   processed_papers, non_academic_authors, company_affiliations,
                   corresponding_email, csv_content, exit_code, affiliation, authors,
                   company_names, records>>

SpecClassifier == InitClassifier /\ [][Classify]_vars

\* a caller that classifies an affiliation and then extracts its companies
InitExtractor ==
    /\ parser \in Parsers
    /\ hash_order \in HashOrders
    /\ affiliation \in ExtractorAffiliations
    /\ is_non_academic = FALSE
    /\ pc = "call"
    /\ authors = <<>>
    /\ non_academic_authors = <<>>
    /\ company_affiliations = <<>>
    /\ corresponding_email = None
    /\ PipelineIdle

\* extract_company_names(affiliation)
Extract ==
    /\ pc = "return"
    /\ IF extract_company_names_raises(affiliation)
       THEN /\ pc' = "raised"
            /\ UNCHANGED company_names
       ELSE /\ pc' = "extracted"
            /\ company_names' = extract_company_names(parser, hash_order, affiliation)
    /\ UNCHANGED <<config_file, hash_order, parser, papers, paper_index,
                   processed_papers, non_academic_authors, company_affiliations,
                   corresponding_email, csv_content, exit_code, affiliation,
                   is_non_academic, authors, records>>

SpecExtractor == InitExtractor /\ [][Classify \/ Extract]_vars

InitGrouper ==
    /\ parser \in Parsers
    /\ hash_order \in HashOrders
    /\ authors \in SeqsUpTo(GrouperAuthors, MaxAuthors)
    /\ pc = "call"
    /\ affiliation = <<>>
    /\ is_non_academic = FALSE
    /\ non_academic_authors = <<>>
    /\ company_affiliations = <<>>
    /\ corresponding_email = None
    /\ PipelineIdle

\* get_non_academic_authors_info(authors)
Group ==
    /\ pc = "call"
    /\ IF get_non_academic_authors_info_raises(authors)
       THEN /\ pc' = "raised"
            /\ UNCHANGED <<non_academic_authors, company_affiliations>>
       ELSE \E info \in {get_non_academic_authors_info(parser, hash_order, authors)} :
            /\ pc' = "return"
            /\ non_academic_authors' = info.authors
            /\ company_affiliations' = info.companies
    /\ UNCHANGED <<config_file, hash_order, parser, papers, paper_index,
                   processed_papers, corresponding_email, csv_content, exit_code,
                   affiliation, is_non_academic, authors,
                   company_names, records>>

SpecGrouper == InitGrouper /\ [][Group]_vars

InitResolver ==
    /\ authors \in SeqsUpTo(EmailAuthors, MaxAuthors)
    /\ corresponding_email = None
    /\ pc = "call"
    /\ parser = NewParser(FallbackConfig)
    /\ hash_order = "forward"
    /\ affiliation = <<>>
    /\ is_non_academic = FALSE
    /\ non_academic_authors = <<>>
    /\ company_affiliations = <<>>
    /\ PipelineIdle

\* _extract_corresponding_email(authors)
Resolve ==
    /\ pc = "call"
    /\ pc' = "return"
    /\ corresponding_email' = _extract_corresponding_email(authors)
    /\ UNCHANGED <<config_file, hash_order, parser, papers, paper_index,
                   processed_papers, non_academic_authors, company_affiliations,
                   csv_content, exit_code, affiliation, is_non_academic, authors,
                   company_names, records>>

SpecResolver == InitResolver /\ [][Resolve]_vars

-----------------------------------------------------------------------------
(* Properties of the classifier, checked under SpecClassifier *)

\* kw occurs in aff as a case-insensitive substring
OccursIn(aff, kw) == Contains(Lower(aff), Lower(kw))

HasAcademicKeyword(self, aff) == \E kw \in self.academic_keywords : OccursIn(aff, kw)
HasKnownCompany(self, aff) ==
    \E name \in self.pharma_companies \cup self.biotech_companies : OccursIn(aff, name)
HasCorporateKeyword(self, aff) == \E kw \in self.company_keywords : OccursIn(aff, kw)

Returned == pc = "return" /\ IsStr(affiliation)

\* C1: academic precedence.  Whenever the affiliation holds a registered
\* academic keyword as a case-insensitive substring, the classifier returns
\* False, whatever company name, corporate keyword or commercial e-mail
\* domain the affiliation also holds.
C1_AcademicPrecedence ==
    (Returned /\ HasAcademicKeyword(parser, affiliation)) => is_non_academic = FALSE

\* an academic keyword next to a known company name was classified
C1_Witness ==
    /\ Returned
    /\ HasAcademicKeyword(parser, affiliation)
    /\ HasKnownCompany(parser, affiliation)
    /\ is_non_academic = FALSE

IsBlank(aff) == \A k \in 1..Len(aff) : IsSpace(aff[k])

\* rule 5 as the claim words it: an e-mail whose domain has none of ".edu",
\* ".ac.", ".org" and has one of ".com", ".net", ".biz", ".co."
HasCommercialEmail(aff) ==
    LET domains == FindDomains(Lower(aff), 1)
    IN  \E k \in 1..Len(domains) :
            /\ \A a \in {<<".", "e", "d", "u">>, <<".", "a", "c", ".">>, <<".", "o", "r", "g">>} : ~Contains(domains[k], a)
            /\ \E c \in {<<".", "c", "o", "m">>, <<".", "n", "e", "t">>, <<".", "b", "i", "z">>, <<".", "c", "o", ".">>} : Contains(domains[k], c)

\* the ordered rule chain, first matching rule wins
RuleChain(self, aff) ==
    IF IsBlank(aff) THEN FALSE
    ELSE IF HasAcademicKeyword(self, aff) THEN FALSE
    ELSE IF HasKnownCompany(self, aff) THEN TRUE
    ELSE IF HasCorporateKeyword(self, aff) THEN TRUE
    ELSE IF HasCommercialEmail(aff) THEN TRUE
    ELSE FALSE

\* C2: the classifier equals the ordered first-match rule chain (blank,
\* academic keyword, known company, corporate keyword, commercial e-mail
\* domain, otherwise False).  In particular an affiliation that is exactly
\* a known company name and holds no academic keyword gives True, and an
\* affiliation whose only signal is an e-mail on a domain of neither kind
\* (".io") gives False.
C2_RuleChain ==
    Returned =>
        /\ is_non_academic = RuleChain(parser, affiliation)
        /\ (/\ affiliation \in parser.pharma_companies \cup parser.biotech_companies
            /\ ~HasAcademicKeyword(parser, affiliation)) => is_non_academic = TRUE
        /\ affiliation = <<"j", "@", "x", ".", "i", "o">> => is_non_academic = FALSE

\* rule 5 decided a call: an e-mail on an academic-style domain that also
\* holds ".com" was skipped, with no other signal in the affiliation
C2_Witness ==
    /\ Returned
    /\ affiliation = <<"j", "@", "b", ".", "o", "r", "g", ".", "c", "o", "m", ",", " ", "N", "Y">>
    /\ ~HasAcademicKeyword(parser, affiliation)
    /\ ~HasKnownCompany(parser, affiliation)
    /\ ~HasCorporateKeyword(parser, affiliation)
    /\ is_non_academic = FALSE

-----------------------------------------------------------------------------
(* Properties of the grouper, checked under SpecGrouper *)

\* no two entries equal when compared case-insensitively
CIUnique(seq) ==
    \A m, n \in 1..Len(seq) : m # n => Lower(seq[m]) # Lower(seq[n])

\* the names and the companies of the non-academic authors, in author
\* order, before any de-duplication across authors
RawNames(self, authors_) ==
    LET taken == NonAcademic(self, authors_)
    IN  SelectSeq([k \in 1..Len(taken) |-> author_name(taken[k])],
                  LAMBDA name : name # <<>>)
RawCompanies(self, order, authors_) ==
    LET taken == NonAcademic(self, authors_)
    IN  Flatten([k \in 1..Len(taken) |->
                    extract_company_names(self, order, taken[k].affiliation)])

\* C5: both lists returned by the grouper hold no two entries equal
\* case-insensitively and keep the first occurrence in author order, the
\* de-duplication running across all authors of the paper.
C5_CaseInsensitiveDedup ==
    pc = "return" =>
        /\ CIUnique(non_academic_authors)
        /\ CIUnique(company_affiliations)
        /\ non_academic_authors = Unique(RawNames(parser, authors), {}, TRUE)
        /\ company_affiliations = Unique(RawCompanies(parser, hash_order, authors), {}, TRUE)

\* an author of index k whose affiliation is classified non-academic and
\* holds text with exactly these characters
NonAcademicWith(k, text) ==
    /\ k \in 1..Len(authors)
    /\ is_non_academic_affiliation(parser, authors[k].affiliation)
    /\ Contains(authors[k].affiliation, text)

PfizerTwice ==
    \E m, n \in 1..Len(authors) :
        /\ m # n
        /\ NonAcademicWith(m, <<"P", "f", "i", "z", "e", "r">>)
        /\ NonAcademicWith(n, <<"p", "f", "i", "z", "e", "r">>)

\* C6: when the known company name occurs as "Pfizer" in one author's
\* non-academic affiliation and as "pfizer" in another's, the company list
\* of the paper holds exactly one entry for that company.
C6_PfizerOnce ==
    (pc = "return" /\ PfizerTwice) =>
        Cardinality({k \in 1..Len(company_affiliations) :
                        Lower(company_affiliations[k]) = <<"p", "f", "i", "z", "e", "r">>}) = 1

\* the grouper returned for two such authors
C6_Witness ==
    /\ pc = "return"
    /\ PfizerTwice
    /\ company_affiliations = << <<"P", "f", "i", "z", "e", "r">> >>

-----------------------------------------------------------------------------
(* Properties of the resolver, checked under SpecResolver *)

NonEmptyEmail(author) == author.email # None /\ author.email # <<>>

\* author k is the first of the list that satisfies Wanted
FirstWith(k, Wanted(_)) ==
    /\ k \in 1..Len(authors)
    /\ Wanted(authors[k])
    /\ \A j \in 1..(k - 1) : ~Wanted(authors[j])

Marked(author) == author.is_corresponding /\ NonEmptyEmail(author)

\* C7: the resolver returns the e-mail of the first author marked
\* corresponding with a non-empty e-mail; without one, the e-mail of the
\* first author with a non-empty e-mail; and None only when no author has a
\* non-empty e-mail.
C7_TwoTierLookup ==
    pc = "return" =>
        /\ \A k \in 1..Len(authors) :
               FirstWith(k, Marked) => corresponding_email = authors[k].email
        /\ \A k \in 1..Len(authors) :
               (FirstWith(k, NonEmptyEmail) /\ \A j \in 1..Len(authors) : ~Marked(authors[j]))
                   => corresponding_email = authors[k].email
        /\ corresponding_email = None <=>
               \A k \in 1..Len(authors) : ~NonEmptyEmail(authors[k])

\* the first tier passed over an earlier author that has an e-mail and no mark
C7_Witness ==
    /\ pc = "return"
    /\ Len(authors) = 2
    /\ NonEmptyEmail(authors[1]) /\ ~authors[1].is_corresponding
    /\ Marked(authors[2])
    /\ authors[1].email # authors[2].email
    /\ corresponding_email = authors[2].email

-----------------------------------------------------------------------------
(* Properties of the pipeline, checked under Spec *)

RowIds(rows) == [k \in 1..Len(rows) |-> rows[k]["PubmedID"]]
PaperIds(ps) == [k \in 1..Len(ps) |-> ps[k].pubmed_id]

\* how many entries of the sequence ids equal id
Count(ids, id) == Cardinality({k \in 1..Len(ids) : ids[k] = id})

Grouped(paper) == get_non_academic_authors_info(parser, hash_order, paper.authors)

WellFormed(paper) == ~get_non_academic_authors_info_raises(paper.authors)

HasNonAcademicAuthor(paper) ==
    \E k \in 1..Len(paper.authors) :
        /\ IsStr(paper.authors[k].affiliation)
        /\ is_non_academic_affiliation(parser, paper.authors[k].affiliation)

\* C3: every input paper with at least one author whose affiliation is
\* classified non-academic is retained, process_papers emitting exactly one
\* row for it, also when that author's first and last names are both empty.
C3_IndustryPaperRetained ==
    pc = "returned" =>
        \A k \in 1..Len(papers) :
            HasNonAcademicAuthor(papers[k]) =>
                Count(RowIds(processed_papers), papers[k].pubmed_id)
                    = Count(PaperIds(papers), papers[k].pubmed_id)

\* the grouper returns an empty non-academic-author list for the paper
Excluded(paper) == WellFormed(paper) /\ Grouped(paper).authors = <<>>

\* C4: a paper for which the grouper returns an empty non-academic-author
\* list contributes no row; the step that excludes it raises nothing and
\* moves the loop on to the next paper, and no row of the result carries its
\* identifier.
C4_SilentExclusion ==
    /\ [][(/\ pc = "process_papers"
           /\ paper_index < Len(papers)
           /\ Excluded(papers[paper_index + 1]))
          => (/\ pc' = "process_papers"
              /\ paper_index' = paper_index + 1
              /\ processed_papers' = processed_papers)]_vars
    /\ [](parser.constructed =>
             \A k \in 1..paper_index :
                 Excluded(papers[k]) =>
                     Count(RowIds(processed_papers), papers[k].pubmed_id) = 0)

\* a paper whose authors are all academic was excluded and the paper after
\* it gave the only row
C4_Witness ==
    /\ pc = "returned"
    /\ Len(papers) = 2
    /\ papers[1].pubmed_id = <<"3">>
    /\ Excluded(papers[1])
    /\ RowIds(processed_papers) = <<papers[2].pubmed_id>>

Kept(paper) == Grouped(paper).authors # <<>>

\* C8: the rows are in input paper order: the row identifiers are the
\* identifiers of the kept papers in the order of the input, one row for
\* each, and export_to_csv writes the rows in that order.
C8_InputOrder ==
    /\ pc \in {"returned", "done"} =>
           RowIds(processed_papers) = PaperIds(SelectSeq(papers, Kept))
    /\ (pc = "done" /\ Len(processed_papers) > 0) =>
           /\ Len(csv_content) = Len(processed_papers) + 1
           /\ \A k \in 1..Len(processed_papers) :
                  csv_content[k + 1][1] = processed_papers[k]["PubmedID"]

\* two kept papers, the greater identifier first, were exported
C8_Witness ==
    /\ pc = "done"
    /\ PaperIds(papers) = << <<"7">>, <<"5">> >>
    /\ RowIds(processed_papers) = << <<"7">>, <<"5">> >>
    /\ csv_content[2][1] = <<"7">>
    /\ csv_content[3][1] = <<"5">>

\* C9: whenever companies.json cannot be loaded (missing, unreadable, not
\* parseable, or lacking one of the four lists), the construction of the
\* AffiliationParser succeeds with the built-in fallback registry.
C9_FallbackOnAnyLoadFailure ==
    (config_file # "ok" /\ pc # "start") =>
        /\ parser.constructed
        /\ parser.companies_data = FallbackConfig

\* C10: no error raised while one record is classified, extracted or
\* aggregated leaves process_papers as a process failure: once the parser
\* is constructed the run neither raises nor exits with status 1.
C10_NoErrorEscapes ==
    parser.constructed => (pc \notin {"raised", "exited"} /\ exit_code # "1")

-----------------------------------------------------------------------------
(* Properties of the extractor, checked under SpecExtractor *)

\* the registry names that occur in aff, in the order the loop visits them
KnownPass(self, order, aff) ==
    SelectSeq(IterationOrder(self, order),
              LAMBDA company : Contains(Lower(aff), Lower(company)))

\* what the two passes find, the known names first, before de-duplication
Candidates(self, order, aff) ==
    KnownPass(self, order, aff) \o _extract_company_patterns(aff)

\* the indices of seq whose entry equals no earlier entry case-insensitively
FirstSeen(seq) ==
    {k \in 1..Len(seq) : \A j \in 1..(k - 1) : Lower(seq[j]) # Lower(seq[k])}

\* the n-th smallest member of a set of indices
Nth(S, n) == CHOOSE k \in S : Cardinality({j \in S : j < k}) = n - 1

\* C11: for every affiliation string the extractor returns a sequence with
\* no empty entry and no two entries equal case-insensitively, holding the
\* first occurrence of each candidate in first-seen order, the known-name
\* pass before the pattern pass; no match yields the empty sequence.
C11_ExtractorResult ==
    (pc = "extracted" /\ IsStr(affiliation)) =>
        LET found == Candidates(parser, hash_order, affiliation)
        IN  /\ \A k \in 1..Len(company_names) : company_names[k] # <<>>
            /\ CIUnique(company_names)
            /\ Len(company_names) = Cardinality(FirstSeen(found))
            /\ \A n \in 1..Len(company_names) :
                   company_names[n] = found[Nth(FirstSeen(found), n)]
            /\ (found = <<>>) => (company_names = <<>>)

\* a known name, then a name only the patterns find, after a candidate that
\* repeats an earlier one in another casing was dropped
C11_Witness ==
    /\ pc = "extracted"
    /\ IsStr(affiliation)
    /\ Len(KnownPass(parser, hash_order, affiliation)) > 0
    /\ Len(company_names) > Len(KnownPass(parser, hash_order, affiliation))
    /\ \E m, n \in 1..Len(Candidates(parser, hash_order, affiliation)) :
           /\ m < n
           /\ Candidates(parser, hash_order, affiliation)[m]
                  # Candidates(parser, hash_order, affiliation)[n]
           /\ Lower(Candidates(parser, hash_order, affiliation)[m])
                  = Lower(Candidates(parser, hash_order, affiliation)[n])

\* the affiliation of scenario C
ScenarioC == <<"X", "Y", "Z", " ", "B", "i", "o", "t", "e", "c", "h", ",", " ", "C", "a", "m", "b", "r", "i", "d", "g", "e", " ", "M", "A">>

\* the registry of self lists no company spelled name in any casing
NoCompanyEntry(self, name) ==
    \A company \in self.pharma_companies \cup self.biotech_companies :
        Lower(company) # Lower(name)

\* C12: for "XYZ Biotech, Cambridge MA" and a registry with no company
\* entry for "XYZ", the classifier returns True and the extractor returns
\* exactly ["XYZ"].
C12_ScenarioC ==
    (/\ pc = "extracted"
     /\ affiliation = ScenarioC
     /\ NoCompanyEntry(parser, <<"X", "Y", "Z">>)) =>
        /\ is_non_academic = TRUE
        /\ company_names = << <<"X", "Y", "Z">> >>

-----------------------------------------------------------------------------
(* Properties of the pipeline from the PubMed response on, checked under   *)
(* SpecFetch                                                               *)

\* the paper the loop of process_papers has just handled is scenario A's:
\* two authors with these affiliations
ScenarioAHandled ==
    /\ pc = "process_papers"
    /\ paper_index > 0
    /\ Len(papers[paper_index].authors) = 2
    /\ papers[paper_index].authors[1].affiliation
           = <<"D", "e", "p", "a", "r", "t", "m", "e", "n", "t", " ", "o", "f", " ", "M", "e", "d", "i", "c", "i", "n", "e", ",", " ", "S", "t", "a", "n", "f", "o", "r", "d", " ", "U", "n", "i", "v", "e", "r", "s", "i", "t", "y">>
    /\ papers[paper_index].authors[2].affiliation
           = <<"P", "f", "i", "z", "e", "r", " ", "I", "n", "c", ".", ",", " ", "N", "e", "w", " ", "Y", "o", "r", "k", ",", " ", "N", "Y", ",", " ", "j", "o", "h", "n", "@", "p", "f", "i", "z", "e", "r", ".", "c", "o", "m">>

LastRow == processed_papers[Len(processed_papers)]

\* C13: the paper of scenario A is kept; its non-academic author list is
\* exactly the second author's name, its company list exactly ["Pfizer"]
\* and its corresponding email john@pfizer.com.
C13_ScenarioA ==
    ScenarioAHandled =>
        LET paper == papers[paper_index]
            name == Strip(paper.authors[2].first_name \o <<" ">> \o paper.authors[2].last_name)
        IN  /\ Len(processed_papers) > 0
            /\ LastRow["PubmedID"] = paper.pubmed_id
            /\ non_academic_authors = <<name>>
            /\ company_affiliations = << <<"P", "f", "i", "z", "e", "r">> >>
            /\ corresponding_email = <<"j", "o", "h", "n", "@", "p", "f", "i", "z", "e", "r", ".", "c", "o", "m">>
            /\ LastRow["Non-academic Author(s)"] = name
            /\ LastRow["Company Affiliation(s)"] = <<"P", "f", "i", "z", "e", "r">>
            /\ LastRow["Corresponding Author Email"] = <<"j", "o", "h", "n", "@", "p", "f", "i", "z", "e", "r", ".", "c", "o", "m">>

\* scenario A's record was fetched after another one and its paper handled
C13_Witness ==
    /\ ScenarioAHandled
    /\ paper_index = 2
    /\ records[2] = ScenarioARecord
    /\ Len(processed_papers) > 0

NotAvailable == <<"N", "o", "t", " ", "a", "v", "a", "i", "l", "a", "b", "l", "e">>

\* row is the row of paper: the six columns, the lists joined with "; ",
\* and the e-mail column
RowOf(row, paper) ==
    /\ DOMAIN row = {"PubmedID", "Title", "Publication Date", "Non-academic Author(s)",
                     "Company Affiliation(s)", "Corresponding Author Email"}
    /\ row["PubmedID"] = paper.pubmed_id
    /\ row["Title"] = paper.title
    /\ row["Publication Date"] = paper.publication_date
    /\ row["Non-academic Author(s)"] = Join(<<";", " ">>, Grouped(paper).authors)
    /\ row["Company Affiliation(s)"] = Join(<<";", " ">>, Grouped(paper).companies)
    /\ row["Corresponding Author Email"] = NotAvailable <=>
           \A k \in 1..Len(paper.authors) : ~NonEmptyEmail(paper.authors[k])
    /\ (\E k \in 1..Len(paper.authors) : NonEmptyEmail(paper.authors[k])) =>
           row["Corresponding Author Email"] = _extract_corresponding_email(paper.authors)

\* C14: every row emitted by process_papers has exactly the six columns
\* identifier, title, publication date, non-academic author names joined with
\* "; ", company names joined with "; " and corresponding email; the email
\* column is "Not available" exactly when no author of the paper has a
\* non-empty email, and is otherwise the resolved corresponding email.
C14_RowColumns ==
    \A k \in 1..Len(processed_papers) :
        /\ \E j \in 1..paper_index : papers[j].pubmed_id = processed_papers[k]["PubmedID"]
        /\ \A j \in 1..paper_index :
               papers[j].pubmed_id = processed_papers[k]["PubmedID"]
                   => RowOf(processed_papers[k], papers[j])

\* a row without e-mail and a row with one, the lists of a row holding more
\* than one entry
C14_Witness ==
    /\ pc = "returned"
    /\ \E m, n \in 1..Len(processed_papers) :
           /\ processed_papers[m]["Corresponding Author Email"] = NotAvailable
           /\ processed_papers[n]["Corresponding Author Email"] # NotAvailable
           /\ Contains(processed_papers[n]["Non-academic Author(s)"], <<";", " ">>)
           /\ Contains(processed_papers[n]["Company Affiliation(s)"], <<";", " ">>)

\* C15: for a fixed registry and a fixed input paper sequence any two runs
\* of process_papers produce identical rows, the order of the entries of
\* the company-names column included: the rows of this run are the rows of
\* a run under any iteration order of the set of known companies.
C15_Deterministic ==
    pc = "returned" =>
        \A order \in HashOrders :
            processed_papers = process_papers(parser, order, papers)

\* the entry of an author list yields an author whose affiliation holds an
\* e-mail address
HasEmail(author_data) ==
    /\ ~parse_author_raises(author_data)
    /\ FirstEmail(author_affiliation(author_data)) # None

\* the author list of the record the paper was parsed from
AuthorListOf(paper) ==
    LET record == CHOOSE r \in Range(records) :
                      /\ ~_parse_paper_record_raises(r)
                      /\ r.MedlineCitation.PMID = paper.pubmed_id
    IN  record.MedlineCitation.Article.AuthorList

\* the paper the loop of process_papers has just handled was kept
KeptHandled ==
    /\ pc = "process_papers"
    /\ paper_index > 0
    /\ Kept(papers[paper_index])

\* C16: every author the record parser produces is marked corresponding if
\* and only if its e-mail is non-empty; so the first author with an e-mail
\* is marked, the second tier of the resolver changes nothing, and the
\* corresponding e-mail of a kept paper is the e-mail of the first entry of
\* the record's author list whose affiliation holds an e-mail address,
\* whatever that author is classified as.
C16_MarkedIffEmail ==
    /\ \A j \in 1..Len(papers) : \A k \in 1..Len(papers[j].authors) :
           papers[j].authors[k].is_corresponding <=> NonEmptyEmail(papers[j].authors[k])
    /\ KeptHandled =>
           LET paper == papers[paper_index]
               with_email == {k \in 1..Len(paper.authors) : NonEmptyEmail(paper.authors[k])}
               entries == AuthorListOf(paper)
               holding == {k \in 1..Len(entries) : HasEmail(entries[k])}
           IN  /\ with_email # {} =>
                      /\ paper.authors[Min(with_email)].is_corresponding
                      /\ corresponding_email = paper.authors[Min(with_email)].email
               /\ holding # {} =>
                      corresponding_email
                          = FirstEmail(author_affiliation(entries[Min(holding)]))
               /\ holding = {} => corresponding_email = None

\* the first entry that holds an e-mail address is an academic author's, and
\* a later entry of an industry author holds one too
C16_Witness ==
    /\ KeptHandled
    /\ corresponding_email # None
    /\ \E m, n \in 1..Len(AuthorListOf(papers[paper_index])) :
           LET entries == AuthorListOf(papers[paper_index])
           IN  /\ m < n
               /\ HasEmail(entries[m])
               /\ \A j \in 1..(m - 1) : ~HasEmail(entries[j])
               /\ ~is_non_academic_affiliation(parser, author_affiliation(entries[m]))
               /\ HasEmail(entries[n])
               /\ is_non_academic_affiliation(parser, author_affiliation(entries[n]))

====
